---------------------------- MODULE Spec2Model ----------------------------
(***************************************************************************)
(* A model of schema2type: the type builder (SchemaBasedTypeBuilder and    *)
(* its chain of type-info factories), the classes it creates               *)
(* (SchemaBasedObject subclasses), and the constructors, accessors and     *)
(* export of the values built from them.                                   *)
(*                                                                         *)
(* Python values are records tagged with their type, such as               *)
(* [t |-> "int", n |-> 1]; each type has a payload field of its own.       *)
(* Strings that the code takes apart (property names, dict keys) are       *)
(* sequences of one-character strings; strings the code only compares or   *)
(* concatenates (schema names, type strings, keywords of a schema) are     *)
(* TLA+ strings.  An ordered dict is a sequence of [k, v] entries with     *)
(* pairwise distinct keys.                                                 *)
(***************************************************************************)
EXTENDS Integers, Sequences, FiniteSets, TLC

VARIABLES
    specification,              \* SchemaBasedTypeBuilder.specification (+ dialect)
    schema_name_to_type_info,   \* the registry: schema name -> type info
    _schemas_that_are_being_parsed, \* identities of the nodes being resolved
    classes,                    \* the classes type() has created, by name
    stack,                      \* the Python call stack of the builder
    ret,                        \* the value the last finished call returned
    outcome,                    \* how the last outermost call ended
    calls,                      \* number of outermost get_type calls made
    last                        \* the last operation on a built type

vars == <<specification, schema_name_to_type_info, _schemas_that_are_being_parsed,
          classes, stack, ret, outcome, calls, last>>

(***************************************************************************)
(* Bounds of the model.                                                    *)
(***************************************************************************)
MaxCalls == 2        \* outermost get_type calls per builder
MaxListLen == 2      \* length of a raw list
MaxDictEntries == 2  \* entries of a raw dict
MaxPathLen == 3      \* segments of a path, but for the deep ones
MaxDepth == 21       \* segments of the deepest path

(***************************************************************************)
(* Characters and strings.                                                 *)
(***************************************************************************)
Digits == {"0", "1", "2", "3", "4", "5", "6", "7", "8", "9"}

Letters ==
    {"a", "b", "c", "d", "e", "f", "g", "h", "i", "j", "k", "l", "m",
     "n", "o", "p", "q", "r", "s", "t", "u", "v", "w", "x", "y", "z",
     "A", "B", "C", "D", "E", "F", "G", "H", "I", "J", "K", "L", "M",
     "N", "O", "P", "Q", "R", "S", "T", "U", "V", "W", "X", "Y", "Z"}

\* \d and \w of Python's re on the ASCII characters
IsDigit(c) == c \in Digits
IsWord(c) == c \in Letters \cup Digits \cup {"_"}

\* keyword.kwlist
kwlist ==
    { <<"F","a","l","s","e">>, <<"N","o","n","e">>, <<"T","r","u","e">>,
      <<"a","n","d">>, <<"a","s">>, <<"a","s","s","e","r","t">>,
      <<"a","s","y","n","c">>, <<"a","w","a","i","t">>, <<"b","r","e","a","k">>,
      <<"c","l","a","s","s">>, <<"c","o","n","t","i","n","u","e">>,
      <<"d","e","f">>, <<"d","e","l">>, <<"e","l","i","f">>, <<"e","l","s","e">>,
      <<"e","x","c","e","p","t">>, <<"f","i","n","a","l","l","y">>,
      <<"f","o","r">>, <<"f","r","o","m">>, <<"g","l","o","b","a","l">>,
      <<"i","f">>, <<"i","m","p","o","r","t">>, <<"i","n">>, <<"i","s">>,
      <<"l","a","m","b","d","a">>, <<"n","o","n","l","o","c","a","l">>,
      <<"n","o","t">>, <<"o","r">>, <<"p","a","s","s">>, <<"r","a","i","s","e">>,
      <<"r","e","t","u","r","n">>, <<"t","r","y">>, <<"w","h","i","l","e">>,
      <<"w","i","t","h">>, <<"y","i","e","l","d">> }

\* ill_character_map.get(c, 'ILL')
ill_character_map(c) ==
    IF c = "$" THEN <<"d", "o", "l", "l", "a", "r">> ELSE <<"I", "L", "L">>

\* re.sub(r'\W+', repl, s): every maximal run of non-word characters of s,
\* from position i on, becomes repl
RECURSIVE SubNonWord(_, _, _)
SubNonWord(s, i, repl) ==
    IF i > Len(s) THEN <<>>
    ELSE IF IsWord(s[i]) THEN <<s[i]>> \o SubNonWord(s, i + 1, repl)
    ELSE IF i > 1 /\ ~IsWord(s[i - 1]) THEN SubNonWord(s, i + 1, repl)
    ELSE repl \o SubNonWord(s, i + 1, repl)

\* make_legal(property_name), for a non-empty name without line breaks
make_legal(property_name) ==
    LET n1 == IF Len(property_name) >= 2 /\ IsDigit(property_name[1])
              THEN <<"I", "L", "L", "_">> \o property_name
              ELSE property_name
        n2 == IF Len(n1) >= 2 /\ ~IsWord(n1[1])
              THEN ill_character_map(n1[1]) \o <<"_">> \o Tail(n1)
              ELSE n1
        n3 == IF \E i \in 2..Len(n2) : ~IsWord(n2[i])
              THEN SubSeq(n2, 1, Len(n2) - 1) \o <<"_">> \o ill_character_map(n2[1])
              ELSE n2
        n4 == SubNonWord(n3, 1, <<"_">> \o ill_character_map(n3[1]) \o <<"_">>)
    IN  IF n4 \in kwlist THEN n4 \o <<"_">> ELSE n4

(***************************************************************************)
(* Schema nodes.  A mapping node is a record holding the keys it has:      *)
(*   ref (the key '$ref'), type, properties, required,                     *)
(*   additionalProperties, patternProperties, oneOf, items.                *)
(* properties and patternProperties are ordered dicts, required a set,     *)
(* oneOf a sequence; additionalProperties is [bool |-> b] or a node.  A    *)
(* node that is no mapping is [scalar |-> text].  A reference string is    *)
(* [prefix |-> p, path |-> segments]: p followed by the segments joined    *)
(* with "/".                                                               *)
(***************************************************************************)
IsDict(schema) == "scalar" \notin DOMAIN schema

Has(schema, key) == IsDict(schema) /\ key \in DOMAIN schema

OpenAPIPrefix == "#/components/schemas/"
JSONSchemaPrefix == "#/definitions/"

Ref(name) == [ref |-> [prefix |-> OpenAPIPrefix, path |-> <<name>>]]
JRef(name) == [ref |-> [prefix |-> JSONSchemaPrefix, path |-> <<name>>]]
Simple(type) == [type |-> type]
AnySchema == [description |-> "anything"]
Array(items) == [type |-> "array", items |-> items]
Object(properties, required) ==
    [type |-> "object", properties |-> properties, required |-> required]
Closed(schema) == schema @@ [additionalProperties |-> [bool |-> FALSE]]
Additional(schema, sub) == schema @@ [additionalProperties |-> sub]
Pattern(schema, subs) == schema @@ [patternProperties |-> subs]
Map(sub) == [type |-> "object", additionalProperties |-> sub]
OneOf(options) == [oneOf |-> options]

\* property names and dict keys used by the documents and the raw values
k_x == <<"x">>
k_y == <<"y">>
k_if == <<"i", "f">>
k_if_ == <<"i", "f", "_">>
k_z == <<"z">>

P(name, schema) == [k |-> name, v |-> schema]

(***************************************************************************)
(* The documents a builder is opened on.                                   *)
(***************************************************************************)
OpenAPI(schemas) ==
    [dialect |-> "openapi", schemas |-> schemas,
     has_definitions |-> FALSE, root |-> AnySchema]

JSONSchema(root, has_definitions, definitions) ==
    [dialect |-> "json_schema", schemas |-> definitions,
     has_definitions |-> has_definitions, root |-> root]

Strings == Array(Simple("string"))

Documents ==
    { \* the Item example: a required array of strings, an optional integer
      OpenAPI("Item" :> Object(<<P(k_x, Strings), P(k_y, Simple("integer"))>>, {k_x})),
      \* a property referencing its own containing type, and a list of that type
      OpenAPI("A" :> Object(<<P(k_x, Simple("integer")), P(k_y, Ref("A"))>>, {k_x})
           @@ "C" :> Array(Ref("A"))),
      \* two object schemas referencing each other, and a list of them
      OpenAPI("A" :> Object(<<P(k_x, Ref("B"))>>, {})
           @@ "B" :> Object(<<P(k_x, Ref("A")), P(k_y, Simple("string"))>>, {k_y})
           @@ "C" :> Array(Ref("B"))),
      \* closed and open objects, and a oneOf over them
      OpenAPI("A" :> Closed(Object(<<P(k_x, Simple("integer"))>>, {k_x}))
           @@ "B" :> Object(<<P(k_y, Simple("number"))>>, {})
           @@ "C" :> OneOf(<<Ref("A"), Ref("B"), Simple("string")>>)),
      \* typed additional properties, pattern properties
      OpenAPI("A" :> Additional(Object(<<P(k_x, Simple("integer"))>>, {}), Strings)
           @@ "B" :> Closed(Pattern(Object(<<P(k_y, Simple("boolean"))>>, {}),
                                    <<P(k_x, Simple("integer")), P(k_y, Ref("C"))>>))
           @@ "C" :> Object(<<P(k_x, Simple("string"))>>, {})),
      \* property names that are keywords or need a legal name
      OpenAPI("A" :> Object(<<P(k_if, Simple("integer")), P(k_if_, Simple("string"))>>, {})
           @@ "B" :> Object(<<P(k_if, Map(Simple("integer")))>>, {k_if})),
      \* the oneOf example: an inline object schema or a string
      OpenAPI("A" :> OneOf(<<Object(<<P(k_x, Simple("integer"))>>, {k_x}), Simple("string")>>)
           @@ "B" :> OneOf(<<Simple("integer"), Ref("A"), Array(Ref("C"))>>)
           @@ "C" :> Closed(Object(<<P(k_x, Simple("integer"))>>, {}))),
      \* named schemas that refer to themselves outside an object schema
      OpenAPI("A" :> OneOf(<<Ref("A"), Simple("string")>>)
           @@ "B" :> Map(Ref("B"))
           @@ "C" :> Array(Ref("C"))),
      OpenAPI("A" :> Ref("B") @@ "B" :> Ref("A")),
      \* references that do not resolve
      OpenAPI("A" :> Object(<<P(k_x, Simple("integer")), P(k_y, Ref("Missing"))>>, {})
           @@ "B" :> Object(<<P(k_x, JRef("A"))>>, {})),
      OpenAPI("A" :> Object(<<P(k_x, [ref |-> [prefix |-> OpenAPIPrefix,
                                               path |-> <<"B", "x">>]])>>, {})
           @@ "B" :> Array(Simple("bogus"))),
      \* simple types, a map, a node without items, a node that is no mapping
      OpenAPI("A" :> Simple("number") @@ "B" :> Map(Simple("integer"))
           @@ "C" :> Object(<<P(k_x, Simple("object")), P(k_y, AnySchema)>>, {k_y})),
      OpenAPI("A" :> [type |-> "array"]
           @@ "B" :> Array([scalar |-> "string"])),
      \* JSON Schema documents: with definitions, and without
      JSONSchema(Object(<<P(k_x, JRef("A")), P(k_y, JRef("RootObject"))>>, {k_x}), TRUE,
                 "A" :> Object(<<P(k_x, Simple("string"))>>, {})),
      JSONSchema(Object(<<P(k_x, JRef("A"))>>, {}), FALSE, <<>>),
      JSONSchema(Object(<<P(k_x, Ref("A"))>>, {}), TRUE, "A" :> Simple("string")) }

(***************************************************************************)
(* SpecificationInterface and its two dialects.  A call that can raise     *)
(* returns [ok |-> TRUE, val |-> v] or [ok |-> FALSE, err |-> exception].  *)
(***************************************************************************)
Ok(v) == [ok |-> TRUE, val |-> v]
Raise(exception) == [ok |-> FALSE, err |-> exception]

SCHEMA_REFERENCE_PATTERN(spec) ==
    IF spec.dialect = "openapi" THEN OpenAPIPrefix ELSE JSONSchemaPrefix

\* re.fullmatch(prefix ([^/]+), schema_ref_str): the prefix, then one
\* non-empty segment
parse_schema_name(spec, schema_ref_str) ==
    IF /\ schema_ref_str.prefix = SCHEMA_REFERENCE_PATTERN(spec)
       /\ Len(schema_ref_str.path) = 1
       /\ schema_ref_str.path[1] # ""
    THEN Ok(schema_ref_str.path[1])
    ELSE Raise("DocumentError")

get_schema_names(spec) ==
    IF spec.dialect = "openapi" THEN Ok(DOMAIN spec.schemas)
    ELSE IF spec.has_definitions THEN Ok(DOMAIN spec.schemas \cup {"RootObject"})
    ELSE Raise("KeyError")

schema_exists(spec, schema_name) ==
    LET names == get_schema_names(spec)
    IN  IF names.ok THEN Ok(schema_name \in names.val) ELSE names

get_schema(spec, name) ==
    IF spec.dialect = "json_schema" /\ name = "RootObject" THEN Ok(spec.root)
    ELSE IF spec.dialect = "json_schema" /\ ~spec.has_definitions THEN Raise("KeyError")
    ELSE IF name \in DOMAIN spec.schemas THEN Ok(spec.schemas[name])
    ELSE Raise("KeyError")

(***************************************************************************)
(* Ordered dicts: sequences of [k, v] entries with distinct keys.          *)
(***************************************************************************)
None == [none |-> TRUE]
IsNone(v) == "none" \in DOMAIN v

EmptyDict == <<>>

Keys(d) == {d[i].k : i \in 1..Len(d)}

\* d[key], for a key of d
DictGet(d, key) == d[CHOOSE i \in 1..Len(d) : d[i].k = key].v

\* d[key] = value: an existing key keeps its place
DictSet(d, key, value) ==
    IF key \in Keys(d)
    THEN [i \in 1..Len(d) |-> IF d[i].k = key THEN [k |-> key, v |-> value] ELSE d[i]]
    ELSE Append(d, [k |-> key, v |-> value])

(***************************************************************************)
(* SchemaBasedTypeInfo.  type_obj is a builtin type or a created class;    *)
(* constructor tells which closure it is and the values it captured.       *)
(***************************************************************************)
Builtin(name) == [k |-> "builtin", n |-> name]
Class(name) == [k |-> "class", n |-> name]

SchemaBasedTypeInfo(type_str, type_obj, required, constructor) ==
    [type_str |-> type_str, type_obj |-> type_obj,
     constructor |-> constructor, required |-> required]

\* issubclass(type_obj, SchemaBasedObject)
IsSchemaBasedObjectClass(type_obj) == type_obj.k = "class"

\* ', '.join(strs)
RECURSIVE Join(_)
Join(strs) ==
    IF strs = <<>> THEN ""
    ELSE IF Len(strs) = 1 THEN strs[1]
    ELSE strs[1] \o ", " \o Join(Tail(strs))

(***************************************************************************)
(* The factories.  Each one's build_type either declines (returns None),   *)
(* raises, returns a type info at once, or goes on in a frame of its own   *)
(* because it resolves sub-schemas first.                                  *)
(***************************************************************************)
\* a chain that asks the map factory before the factory of the classes
_type_info_factories_map_first ==
    << "RefTypeInfoFactory", "DictTypeInfoFactory", "CustomTypeInfoFactory",
       "OneOfTypeInfoFactory", "ArrayTypeInfoFactory", "SimpleTypeInfoFactory" >>

\* SchemaBasedTypeBuilder._type_info_factories
_type_info_factories ==
    << "RefTypeInfoFactory", "CustomTypeInfoFactory", "OneOfTypeInfoFactory",
       "ArrayTypeInfoFactory", "DictTypeInfoFactory", "SimpleTypeInfoFactory" >>

Decline == [act |-> "decline"]
Accept(type_info) == [act |-> "accept", type_info |-> type_info]
Enter(frame) == [act |-> "enter", frame |-> frame]
Fail(exception) == [act |-> "raise", err |-> exception]

\* schema.get('type', None) == type
TypeIs(schema, type) == Has(schema, "type") /\ schema.type = type

RefTypeInfoFactory_accepts(schema) == Has(schema, "ref")

CustomTypeInfoFactory_accepts(schema, schema_name) ==
    /\ schema_name # <<>>
    /\ IsDict(schema)
    /\ TypeIs(schema, "object")
    /\ "properties" \in DOMAIN schema

\* schema.get('additionalProperties', True) is False
\*     and 'patternProperties' not in schema
AdditionalPropertiesForbidden(schema) ==
    /\ "additionalProperties" \in DOMAIN schema
    /\ "bool" \in DOMAIN schema.additionalProperties
    /\ schema.additionalProperties.bool = FALSE
    /\ "patternProperties" \notin DOMAIN schema

\* a class that build_type leaves as it inherits it
NewClass_inherited(schema) ==
    [_schema |-> EmptyDict, _additional_properties_allowed |-> TRUE]

\* the class type() returns: the attributes it inherits from
\* SchemaBasedObject, and the one build_type may set
NewClass(schema) ==
    [_schema |-> EmptyDict,
     _additional_properties_allowed |-> ~AdditionalPropertiesForbidden(schema)]

CustomTypeInfoFactory_build_type(schema, schema_name) ==
    SchemaBasedTypeInfo(schema_name[1], Class(schema_name[1]), TRUE,
                        [c |-> "custom_class_constructor", new_class |-> schema_name[1]])

OneOfTypeInfoFactory_accepts(schema) == Has(schema, "oneOf")

OneOfTypeInfo(type_options, required) ==
    SchemaBasedTypeInfo(
        "Union[" \o Join([i \in 1..Len(type_options) |-> type_options[i].type_str]) \o "]",
        Builtin("object"), required,
        [c |-> "oneOf_constructor", type_options |-> type_options])

ArrayTypeInfoFactory_accepts(schema) == IsDict(schema) /\ TypeIs(schema, "array")

ArrayTypeInfo(sub_type, required) ==
    SchemaBasedTypeInfo("List[" \o sub_type.type_str \o "]", Builtin("list"), required,
                        [c |-> "array_constructor", sub_type |-> sub_type])

\* try_build_additional_property_type, up to its call of the builder: the
\* sub-schema it resolves, or None
additional_property_schema(schema) ==
    IF IsDict(schema) /\ TypeIs(schema, "object")
    THEN IF "patternProperties" \in DOMAIN schema
         THEN OneOf([i \in 1..Len(schema.patternProperties) |->
                        schema.patternProperties[i].v])
         ELSE IF /\ "additionalProperties" \in DOMAIN schema
                 /\ "bool" \notin DOMAIN schema.additionalProperties
                 /\ IsDict(schema.additionalProperties)
         THEN schema.additionalProperties
         ELSE None
    ELSE None

DictTypeInfoFactory_accepts(schema) ==
    /\ IsDict(schema) /\ TypeIs(schema, "object")
    /\ ~IsNone(additional_property_schema(schema))

DictTypeInfo(sub_type, required) ==
    SchemaBasedTypeInfo("Dict[str, " \o sub_type.type_str \o "]", Builtin("dict"), required,
                        [c |-> "dict_constructor", sub_type |-> sub_type])

basic_openapi_type_strings ==
    [string |-> "str", integer |-> "int", number |-> "float", boolean |-> "bool"]

Identity == [c |-> "identity"]

SimpleTypeInfoFactory_build_type(schema, required) ==
    IF ~IsDict(schema) THEN Fail("AttributeError")
    ELSE IF "type" \notin DOMAIN schema
    THEN Accept(SchemaBasedTypeInfo("Any", Builtin("object"), required, Identity))
    ELSE IF schema.type = "object"
    THEN Accept(SchemaBasedTypeInfo("Dict[str, Any]", Builtin("dict"), required, Identity))
    ELSE IF schema.type \notin DOMAIN basic_openapi_type_strings
    THEN Fail("DocumentError")
    ELSE Accept(SchemaBasedTypeInfo(basic_openapi_type_strings[schema.type],
                                    Builtin(basic_openapi_type_strings[schema.type]),
                                    required, Identity))

FactoryFrame(factory_class, schema, required) ==
    [f |-> factory_class, schema |-> schema, required |-> required,
     pc |-> "entry", type_options |-> <<>>]

\* factory_class(...).build_type(), up to its first call of the builder
build_type(factory_class, schema, schema_name, required) ==
    CASE factory_class = "RefTypeInfoFactory" ->
            IF RefTypeInfoFactory_accepts(schema)
            THEN Enter(FactoryFrame(factory_class, schema, required)) ELSE Decline
      [] factory_class = "CustomTypeInfoFactory" ->
            IF CustomTypeInfoFactory_accepts(schema, schema_name)
            THEN Accept(CustomTypeInfoFactory_build_type(schema, schema_name))
            ELSE Decline
      [] factory_class = "OneOfTypeInfoFactory" ->
            IF OneOfTypeInfoFactory_accepts(schema)
            THEN Enter(FactoryFrame(factory_class, schema, required)) ELSE Decline
      [] factory_class = "ArrayTypeInfoFactory" ->
            IF ArrayTypeInfoFactory_accepts(schema)
            THEN Enter(FactoryFrame(factory_class, schema, required)) ELSE Decline
      [] factory_class = "DictTypeInfoFactory" ->
            IF DictTypeInfoFactory_accepts(schema)
            THEN Enter(FactoryFrame(factory_class, schema, required)) ELSE Decline
      [] OTHER -> SimpleTypeInfoFactory_build_type(schema, required)

(***************************************************************************)
(* The builder's call stack.  The last frame is the running call; a frame  *)
(* below it waits, at its pc, for the call above to return.  An exception  *)
(* is caught nowhere in the builder: it ends every call on the stack.      *)
(***************************************************************************)
Top == stack[Len(stack)]

\* the stack with the running frame replaced and further frames pushed
Continue(frame, pushed) == SubSeq(stack, 1, Len(stack) - 1) \o <<frame>> \o pushed

GetTypeFrame(schema_name) ==
    [f |-> "get_type", schema_name |-> schema_name, pc |-> "entry"]

\* a call build_and_define_type(schema, name, required); name is <<>> for None
BuildFrame(schema, name, required) ==
    [f |-> "build_and_define_type", schema |-> schema, name |-> name,
     required |-> required, pc |-> "entry", factories |-> <<>>,
     consulted |-> <<>>, type_info |-> None]

\* SchemaBasedTypeInfoFactory.build_sub_type
build_sub_type(sub_schema, required) == BuildFrame(sub_schema, <<>>, required)

OnTypeDefinedFrame(schema, class) ==
    [f |-> "on_type_defined", schema |-> schema, class |-> class,
     pc |-> "entry", i |-> 1]

BuilderUnchanged ==
    UNCHANGED <<specification, schema_name_to_type_info,
                _schemas_that_are_being_parsed, classes>>

\* the running call returns value to its caller
Return(value) ==
    /\ stack' = SubSeq(stack, 1, Len(stack) - 1)
    /\ ret' = value
    /\ outcome' = IF Len(stack) = 1 THEN "returned" ELSE outcome

\* the running call raises
Unwind(exception) ==
    /\ stack' = <<>>
    /\ ret' = None
    /\ outcome' = exception

\* hash((name, str(schema)))
SchemaIdentifier(name, schema) == <<name, schema>>

\* the names a client asks get_type for: the document's schema names
ClientNames ==
    DOMAIN specification.schemas
        \cup (IF specification.dialect = "json_schema" THEN {"RootObject"} ELSE {})

\* a client calls get_type(schema_name) on the builder
ClientGetType(schema_name) ==
    /\ stack = <<>>
    /\ calls < MaxCalls
    /\ stack' = <<GetTypeFrame(schema_name)>>
    /\ calls' = calls + 1
    /\ outcome' = "running"
    /\ ret' = None
    /\ last' = None
    /\ BuilderUnchanged

\* SchemaBasedTypeBuilder.get_type: up to its call of build_and_define_type,
\* and after it
get_type ==
    /\ stack # <<>> /\ Top.f = "get_type"
    /\ IF Top.pc = "entry" /\ Top.schema_name \notin DOMAIN schema_name_to_type_info
       THEN LET schema == get_schema(specification, Top.schema_name)
            IN  IF schema.ok
                THEN /\ stack' = Continue([Top EXCEPT !.pc = "built"],
                                          <<BuildFrame(schema.val, <<Top.schema_name>>, TRUE)>>)
                     /\ UNCHANGED <<ret, outcome>>
                ELSE Unwind(schema.err)
       ELSE IF Top.schema_name \in DOMAIN schema_name_to_type_info
            THEN Return(schema_name_to_type_info[Top.schema_name])
            ELSE Unwind("KeyError")
    /\ BuilderUnchanged
    /\ UNCHANGED <<calls, last>>

\* build_and_define_type: the assertion and the choice of the factories
build_and_define_type_enter ==
    /\ stack # <<>> /\ Top.f = "build_and_define_type" /\ Top.pc = "entry"
    /\ LET schema_identifier == SchemaIdentifier(Top.name, Top.schema)
       IN  IF Top.name # <<>> /\ Top.name[1] \in DOMAIN schema_name_to_type_info
           THEN /\ Unwind("AssertionError")
                /\ UNCHANGED _schemas_that_are_being_parsed
           ELSE IF schema_identifier \in _schemas_that_are_being_parsed
           THEN /\ stack' = Continue([Top EXCEPT !.pc = "factories",
                                                 !.factories = <<"SimpleTypeInfoFactory">>],
                                     <<>>)
                /\ UNCHANGED <<ret, outcome, _schemas_that_are_being_parsed>>
           ELSE /\ stack' = Continue([Top EXCEPT !.pc = "factories",
                                                 !.factories = _type_info_factories],
                                     <<>>)
                /\ _schemas_that_are_being_parsed' =
                       _schemas_that_are_being_parsed \cup {schema_identifier}
                /\ UNCHANGED <<ret, outcome>>
    /\ UNCHANGED <<specification, schema_name_to_type_info, classes, calls, last>>

\* self.schema_name_to_type_info[name] = type_info, if name is not None
Define(name, type_info) ==
    IF name = <<>> THEN schema_name_to_type_info
    ELSE [n \in DOMAIN schema_name_to_type_info \cup {name[1]} |->
             IF n = name[1] THEN type_info ELSE schema_name_to_type_info[n]]

\* build_and_define_type: one turn of the loop over the factories, up to the
\* first call build_type makes; a type info returned at once is registered
\* and on_type_defined is called
build_and_define_type_consult ==
    /\ stack # <<>> /\ Top.f = "build_and_define_type" /\ Top.pc = "factories"
    /\ IF Top.factories = <<>>
       THEN /\ Unwind("AssertionError")
            /\ UNCHANGED <<schema_name_to_type_info, classes>>
       ELSE
       LET factory_class == Head(Top.factories)
           built == build_type(factory_class, Top.schema, Top.name, Top.required)
           consulted == Append(Top.consulted, factory_class)
       IN  CASE built.act = "decline" ->
                  /\ stack' = Continue([Top EXCEPT !.factories = Tail(Top.factories),
                                                   !.consulted = consulted], <<>>)
                  /\ UNCHANGED <<ret, outcome, schema_name_to_type_info, classes>>
             [] built.act = "raise" ->
                  /\ Unwind(built.err)
                  /\ UNCHANGED <<schema_name_to_type_info, classes>>
             [] built.act = "enter" ->
                  /\ stack' = Continue([Top EXCEPT !.pc = "build_type",
                                                   !.consulted = consulted],
                                       <<built.frame>>)
                  /\ UNCHANGED <<ret, outcome, schema_name_to_type_info, classes>>
             [] built.act = "accept" ->
                  /\ schema_name_to_type_info' = Define(Top.name, built.type_info)
                  /\ IF factory_class = "CustomTypeInfoFactory"
                     THEN /\ classes' = (Top.name[1] :> NewClass(Top.schema)) @@ classes
                          /\ stack' = Continue(
                                 [Top EXCEPT !.pc = "defined", !.consulted = consulted,
                                             !.type_info = built.type_info],
                                 <<OnTypeDefinedFrame(Top.schema, Top.name[1])>>)
                     ELSE /\ classes' = classes
                          /\ stack' = Continue(
                                 [Top EXCEPT !.pc = "defined", !.consulted = consulted,
                                             !.type_info = built.type_info], <<>>)
                  /\ UNCHANGED <<ret, outcome>>
    /\ UNCHANGED <<specification, _schemas_that_are_being_parsed, calls, last>>

\* build_and_define_type: build_type has returned a type info after
\* resolving sub-schemas; it is registered (on_type_defined does nothing for
\* these factories)
build_and_define_type_define ==
    /\ stack # <<>> /\ Top.f = "build_and_define_type" /\ Top.pc = "build_type"
    /\ schema_name_to_type_info' = Define(Top.name, ret)
    /\ stack' = Continue([Top EXCEPT !.pc = "defined", !.type_info = ret], <<>>)
    /\ UNCHANGED <<specification, _schemas_that_are_being_parsed, classes,
                   ret, outcome, calls, last>>

\* build_and_define_type: after the loop
build_and_define_type_return ==
    /\ stack # <<>> /\ Top.f = "build_and_define_type" /\ Top.pc = "defined"
    /\ LET schema_identifier == SchemaIdentifier(Top.name, Top.schema)
       IN  IF IsNone(Top.type_info)
           THEN /\ Unwind("AssertionError")
                /\ UNCHANGED _schemas_that_are_being_parsed
           ELSE /\ _schemas_that_are_being_parsed' =
                       _schemas_that_are_being_parsed \ {schema_identifier}
                /\ Return(Top.type_info)
    /\ UNCHANGED <<specification, schema_name_to_type_info, classes, calls, last>>

\* RefTypeInfoFactory.build_type: up to its call of get_type, and after it
RefTypeInfoFactory_build_type ==
    /\ stack # <<>> /\ Top.f = "RefTypeInfoFactory"
    /\ IF Top.pc = "entry"
       THEN LET ref_string == Top.schema.ref
                schema_name == parse_schema_name(specification, ref_string)
                exists == schema_exists(specification, schema_name.val)
            IN  IF ~schema_name.ok THEN Unwind(schema_name.err)
                ELSE IF ~exists.ok THEN Unwind(exists.err)
                ELSE IF ~exists.val THEN Unwind("DocumentError")
                ELSE /\ stack' = Continue([Top EXCEPT !.pc = "referenced"],
                                          <<GetTypeFrame(schema_name.val)>>)
                     /\ UNCHANGED <<ret, outcome>>
       ELSE LET referenced_type_info == ret
            IN  Return(SchemaBasedTypeInfo(referenced_type_info.type_str,
                                           referenced_type_info.type_obj,
                                           Top.required,
                                           referenced_type_info.constructor))
    /\ BuilderUnchanged
    /\ UNCHANGED <<calls, last>>

\* OneOfTypeInfoFactory.build_type: the list comprehension over
\* schema['oneOf'], one build_sub_type at a time, then the type info
OneOfTypeInfoFactory_build_type ==
    /\ stack # <<>> /\ Top.f = "OneOfTypeInfoFactory"
    /\ LET type_options == IF Top.pc = "entry" THEN <<>>
                           ELSE Append(Top.type_options, ret)
       IN  IF Len(type_options) < Len(Top.schema.oneOf)
           THEN /\ stack' = Continue(
                       [Top EXCEPT !.pc = "option", !.type_options = type_options],
                       <<build_sub_type(Top.schema.oneOf[Len(type_options) + 1], TRUE)>>)
                /\ UNCHANGED <<ret, outcome>>
           ELSE Return(OneOfTypeInfo(type_options, Top.required))
    /\ BuilderUnchanged
    /\ UNCHANGED <<calls, last>>

\* ArrayTypeInfoFactory.build_type
ArrayTypeInfoFactory_build_type ==
    /\ stack # <<>> /\ Top.f = "ArrayTypeInfoFactory"
    /\ IF Top.pc = "entry"
       THEN IF "items" \notin DOMAIN Top.schema
            THEN Unwind("KeyError")
            ELSE /\ stack' = Continue([Top EXCEPT !.pc = "items"],
                                      <<build_sub_type(Top.schema.items, TRUE)>>)
                 /\ UNCHANGED <<ret, outcome>>
       ELSE Return(ArrayTypeInfo(ret, Top.required))
    /\ BuilderUnchanged
    /\ UNCHANGED <<calls, last>>

\* DictTypeInfoFactory.build_type, try_build_additional_property_type in it
DictTypeInfoFactory_build_type ==
    /\ stack # <<>> /\ Top.f = "DictTypeInfoFactory"
    /\ IF Top.pc = "entry"
       THEN /\ stack' = Continue(
                   [Top EXCEPT !.pc = "sub_type"],
                   <<BuildFrame(additional_property_schema(Top.schema), <<>>, TRUE)>>)
            /\ UNCHANGED <<ret, outcome>>
       ELSE Return(DictTypeInfo(ret, Top.required))
    /\ BuilderUnchanged
    /\ UNCHANGED <<calls, last>>

\* CustomTypeInfoFactory.on_type_defined: the attributes it resets, the
\* additional properties' type, then one property per turn of its loop: the
\* legal name is mapped before the property's schema is resolved; its type
\* and its accessor are set after
CustomTypeInfoFactory_on_type_defined ==
    /\ stack # <<>> /\ Top.f = "on_type_defined"
    /\ LET properties == Top.schema.properties
           required_properties ==
               IF "required" \in DOMAIN Top.schema THEN Top.schema.required ELSE {}
           sub_schema == additional_property_schema(Top.schema)
           \* the class as the call so far leaves it
           reset == [a \in DOMAIN classes[Top.class]
                          \cup {"_legal_property_name_to_original",
                                "_property_name_to_type", "accessors"} |->
                        IF a \in {"_legal_property_name_to_original",
                                  "_property_name_to_type"} THEN EmptyDict
                        ELSE IF a = "accessors"
                        THEN (IF a \in DOMAIN classes[Top.class]
                              THEN classes[Top.class][a] ELSE EmptyDict)
                        ELSE classes[Top.class][a]]
           before ==
               CASE Top.pc = "entry" ->
                      IF IsNone(sub_schema)
                      THEN reset @@ [_additional_properties_type |-> None]
                      ELSE reset
                 [] Top.pc = "additional" ->
                      [_additional_properties_type |-> ret] @@ classes[Top.class]
                 [] OTHER ->
                      LET property_name == properties[Top.i - 1].k
                          cls == classes[Top.class]
                      IN  [cls EXCEPT
                             !._property_name_to_type =
                                 DictSet(@, property_name, ret),
                             !.accessors =
                                 DictSet(@, make_legal(property_name), property_name)]
       IN  IF Top.pc = "entry" /\ ~IsNone(sub_schema)
           THEN /\ classes' = [classes EXCEPT ![Top.class] = before]
                /\ stack' = Continue([Top EXCEPT !.pc = "additional"],
                                     <<BuildFrame(sub_schema, <<>>, TRUE)>>)
                /\ UNCHANGED <<ret, outcome>>
           ELSE IF Top.i <= Len(properties)
           THEN LET property_name == properties[Top.i].k
                    property_schema == properties[Top.i].v
                IN  /\ classes' =
                          [classes EXCEPT ![Top.class] =
                              [before EXCEPT !._legal_property_name_to_original =
                                  DictSet(@, make_legal(property_name), property_name)]]
                    /\ stack' = Continue(
                          [Top EXCEPT !.pc = "property", !.i = Top.i + 1],
                          <<build_sub_type(property_schema,
                                           property_name \in required_properties)>>)
                    /\ UNCHANGED <<ret, outcome>>
           ELSE /\ classes' = [classes EXCEPT ![Top.class] = before]
                /\ Return(None)
    /\ UNCHANGED <<specification, schema_name_to_type_info,
                   _schemas_that_are_being_parsed, calls, last>>

(***************************************************************************)
(* Python values: None, bool, int, float (by its text), str, list, dict    *)
(* and instances of the created classes.                                   *)
(***************************************************************************)
PyNone == [t |-> "NoneType"]
PyBool(b) == [t |-> "bool", b |-> b]
PyInt(n) == [t |-> "int", n |-> n]
PyFloat(text) == [t |-> "float", x |-> text]
PyStr(chars) == [t |-> "str", s |-> chars]
PyList(elements) == [t |-> "list", l |-> elements]
PyDict(entries) == [t |-> "dict", d |-> entries]
Instance(class, properties) ==
    [t |-> "instance", class |-> class, _properties |-> properties]

\* isinstance(value, type_obj); bool is a subclass of int
isinstance(value, type_obj) ==
    IF type_obj.k = "class"
    THEN value.t = "instance" /\ value.class = type_obj.n
    ELSE CASE type_obj.n = "object" -> TRUE
           [] type_obj.n = "int" -> value.t \in {"int", "bool"}
           [] OTHER -> value.t = type_obj.n

DecimalDigit == <<"0", "1", "2", "3", "4", "5", "6", "7", "8", "9">>

\* str(key), for a key that is a str or an int in 0..9
str(key) == IF key.t = "str" THEN key ELSE PyStr(<<DecimalDigit[key.n + 1]>>)

\* OAS30Validator(schema).validate(instance) of the external validator, for
\* the keywords that decide it here: required, and additionalProperties
\* false.  The empty schema accepts every instance.
OAS30Validator_validate(schema, instance) ==
    IF /\ "required" \in DOMAIN schema
       /\ \E name \in schema.required : PyStr(name) \notin Keys(instance)
    THEN Raise("ValidationError")
    ELSE IF /\ "properties" \in DOMAIN schema
            /\ AdditionalPropertiesForbidden(schema)
            /\ \E key \in Keys(instance) :
                   key.t # "str" \/ key.s \notin Keys(schema.properties)
    THEN Raise("ValidationError")
    ELSE Ok(instance)

RECURSIVE constructor(_, _)
RECURSIVE SchemaBasedObject_init_loop(_, _, _, _)
RECURSIVE oneOf_constructor_loop(_, _, _)
RECURSIVE array_constructor_loop(_, _, _, _)
RECURSIVE dict_constructor_loop(_, _, _, _)

\* SchemaBasedObject.__init__, after the validation: the loop over
\* properties.items() from entry i on, self._properties being bag
SchemaBasedObject_init_loop(class, properties, i, bag) ==
    IF i > Len(properties) THEN Ok(Instance(class, bag))
    ELSE IF "_legal_property_name_to_original" \notin DOMAIN classes[class]
    THEN Raise("AttributeError")
    ELSE
    LET cls == classes[class]
        given == properties[i].k.s
        property_value == properties[i].v
        property_name ==
            IF given \in Keys(cls._legal_property_name_to_original)
            THEN DictGet(cls._legal_property_name_to_original, given)
            ELSE given
    IN  IF property_name \in Keys(cls._property_name_to_type)
        THEN LET built == constructor(
                     DictGet(cls._property_name_to_type, property_name).constructor,
                     property_value)
             IN  IF built.ok
                 THEN SchemaBasedObject_init_loop(class, properties, i + 1,
                          DictSet(bag, PyStr(property_name), built.val))
                 ELSE built
        ELSE IF cls._additional_properties_allowed
        THEN IF "_additional_properties_type" \notin DOMAIN cls
             THEN Raise("AttributeError")
             ELSE IF ~IsNone(cls._additional_properties_type)
             THEN LET built == constructor(cls._additional_properties_type.constructor,
                                           property_value)
                  IN  IF built.ok
                      THEN SchemaBasedObject_init_loop(class, properties, i + 1,
                               DictSet(bag, PyStr(property_name), built.val))
                      ELSE built
             ELSE SchemaBasedObject_init_loop(class, properties, i + 1,
                      DictSet(bag, PyStr(property_name), property_value))
        ELSE Raise("ValueError")

\* new_class(**properties): SchemaBasedObject.__init__
SchemaBasedObject_init(class, properties) ==
    IF \E key \in Keys(properties) : key.t # "str"
    THEN Raise("TypeError")         \* keywords must be strings
    ELSE LET valid == OAS30Validator_validate(classes[class]._schema, properties)
         IN  IF valid.ok
             THEN SchemaBasedObject_init_loop(class, properties, 1, EmptyDict)
             ELSE valid

\* CustomTypeInfoFactory.build_type.custom_class_constructor
custom_class_constructor(new_class, properties_or_object) ==
    IF isinstance(properties_or_object, Class(new_class))
    THEN Ok(properties_or_object)
    ELSE IF ~isinstance(properties_or_object, Builtin("dict"))
    THEN Raise("ValueError")
    ELSE SchemaBasedObject_init(new_class, properties_or_object.d)

\* sorted(type_options, key = 0 if issubclass(option.type_obj,
\* SchemaBasedObject) else 1): a stable sort
SortedOptions(type_options) ==
    SelectSeq(type_options, LAMBDA option : IsSchemaBasedObjectClass(option.type_obj))
        \o SelectSeq(type_options,
                     LAMBDA option : ~IsSchemaBasedObjectClass(option.type_obj))

\* a condition that tries a class on every raw value
OptionIsTried_any_class(option, raw_value) ==
    \/ IsSchemaBasedObjectClass(option.type_obj)
    \/ isinstance(raw_value, option.type_obj)

\* the condition under which the oneOf constructor tries an option
OptionIsTried(option, raw_value) ==
    \/ IsSchemaBasedObjectClass(option.type_obj) /\ isinstance(raw_value, Builtin("dict"))
    \/ isinstance(raw_value, option.type_obj)

\* OneOfTypeInfoFactory.build_type.constructor: the loop from option i on
oneOf_constructor_loop(options, i, raw_value) ==
    IF i > Len(options) THEN Raise("NoValidOneOfOptionException")
    ELSE IF OptionIsTried(options[i], raw_value)
    THEN LET built == constructor(options[i].constructor, raw_value)
         IN  IF ~built.ok /\ built.err = "NoValidOneOfOptionException"
             THEN oneOf_constructor_loop(options, i + 1, raw_value)
             ELSE built
    ELSE oneOf_constructor_loop(options, i + 1, raw_value)

oneOf_constructor(type_options, raw_value) ==
    oneOf_constructor_loop(SortedOptions(type_options), 1, raw_value)

\* the options whose constructor that loop calls with raw_value, from option
\* i on, in the order of the calls
RECURSIVE oneOf_constructor_calls(_, _, _)
oneOf_constructor_calls(options, i, raw_value) ==
    IF i > Len(options) THEN <<>>
    ELSE IF OptionIsTried(options[i], raw_value)
    THEN LET built == constructor(options[i].constructor, raw_value)
         IN  IF ~built.ok /\ built.err = "NoValidOneOfOptionException"
             THEN <<options[i]>> \o oneOf_constructor_calls(options, i + 1, raw_value)
             ELSE <<options[i]>>
    ELSE oneOf_constructor_calls(options, i + 1, raw_value)

\* [sub_type.constructor(x) for x in raw_list], from element i on
array_constructor_loop(sub_type, raw_list, i, done) ==
    IF i > Len(raw_list) THEN Ok(PyList(done))
    ELSE LET built == constructor(sub_type.constructor, raw_list[i])
         IN  IF built.ok
             THEN array_constructor_loop(sub_type, raw_list, i + 1, Append(done, built.val))
             ELSE built

\* an array constructor that takes what is no list as it is
array_constructor_unchecked(sub_type, raw_list) ==
    IF ~isinstance(raw_list, Builtin("list")) THEN Ok(raw_list)
    ELSE array_constructor_loop(sub_type, raw_list.l, 1, <<>>)

\* ArrayTypeInfoFactory.build_type.array_constructor
array_constructor(sub_type, raw_list) ==
    IF ~isinstance(raw_list, Builtin("list")) THEN Raise("ValueError")
    ELSE array_constructor_loop(sub_type, raw_list.l, 1, <<>>)

\* {str(key): sub_type.constructor(value) for key, value in raw_dict.items()}
dict_constructor_loop(sub_type, raw_dict, i, done) ==
    IF i > Len(raw_dict) THEN Ok(PyDict(done))
    ELSE LET built == constructor(sub_type.constructor, raw_dict[i].v)
         IN  IF built.ok
             THEN dict_constructor_loop(sub_type, raw_dict, i + 1,
                                        DictSet(done, str(raw_dict[i].k), built.val))
             ELSE built

\* DictTypeInfoFactory.build_type.constructor; only a dict has items()
dict_constructor(sub_type, raw_dict) ==
    IF ~isinstance(raw_dict, Builtin("dict")) THEN Raise("AttributeError")
    ELSE dict_constructor_loop(sub_type, raw_dict.d, 1, EmptyDict)

\* type_info.constructor(raw_value), c being the constructor of type_info
constructor(c, raw_value) ==
    CASE c.c = "identity" -> Ok(raw_value)
      [] c.c = "custom_class_constructor" ->
            custom_class_constructor(c.new_class, raw_value)
      [] c.c = "oneOf_constructor" -> oneOf_constructor(c.type_options, raw_value)
      [] c.c = "array_constructor" -> array_constructor(c.sub_type, raw_value)
      [] c.c = "dict_constructor" -> dict_constructor(c.sub_type, raw_value)

\* an export that converts the instance alone, not what it holds
to_simple_shallow(original_object) ==
    IF original_object.t = "instance" THEN PyDict(original_object._properties)
    ELSE original_object

\* {key: to_simple(value) for key, value in d.items()}
RECURSIVE to_simple(_)
to_simple_items(d) ==
    PyDict([i \in 1..Len(d) |-> [k |-> d[i].k, v |-> to_simple(d[i].v)]])

to_simple(original_object) ==
    CASE original_object.t = "instance" -> to_simple_items(original_object._properties)
      [] original_object.t = "dict" -> to_simple_items(original_object.d)
      [] original_object.t = "list" ->
            PyList([i \in 1..Len(original_object.l) |-> to_simple(original_object.l[i])])
      [] OTHER -> original_object

\* a setter that takes None for every property
property_setter_lenient(self_, value, bound_property_name) ==
    LET property_type == DictGet(classes[self_.class]._property_name_to_type,
                                 bound_property_name)
    IN  IF ~(value = PyNone \/ isinstance(value, property_type.type_obj))
        THEN Raise("ValueError")
        ELSE Ok(Instance(self_.class,
                         DictSet(self_._properties, PyStr(bound_property_name), value)))

\* property_setter of the accessor bound to bound_property_name
property_setter(self_, value, bound_property_name) ==
    LET cls == classes[self_.class]
    IN  IF bound_property_name \notin Keys(cls._property_name_to_type)
        THEN Raise("KeyError")
        ELSE LET property_type == DictGet(cls._property_name_to_type, bound_property_name)
             IN  IF ~(\/ value = PyNone /\ ~property_type.required
                      \/ isinstance(value, property_type.type_obj))
                 THEN Raise("ValueError")
                 ELSE Ok(Instance(self_.class,
                                  DictSet(self_._properties, PyStr(bound_property_name), value)))

\* a == b of Python, on the values of the model
RECURSIVE PyEq(_, _)
PyEq(a, b) ==
    CASE a.t = "dict" /\ b.t = "dict" ->
            /\ Keys(a.d) = Keys(b.d)
            /\ \A key \in Keys(a.d) : PyEq(DictGet(a.d, key), DictGet(b.d, key))
      [] a.t = "list" /\ b.t = "list" ->
            /\ Len(a.l) = Len(b.l)
            /\ \A i \in 1..Len(a.l) : PyEq(a.l[i], b.l[i])
      [] a.t \in {"int", "bool"} /\ b.t \in {"int", "bool"} ->
            (IF a.t = "bool" THEN (IF a.b THEN 1 ELSE 0) ELSE a.n)
                = (IF b.t = "bool" THEN (IF b.b THEN 1 ELSE 0) ELSE b.n)
      [] OTHER -> a = b

(***************************************************************************)
(* The raw values a client passes to the constructors.                     *)
(***************************************************************************)
SeqsUpTo(S, n) == UNION {[1..m -> S] : m \in 0..n}

Atoms == {PyNone, PyBool(TRUE), PyInt(1), PyFloat("3.5"), PyStr(<<"s">>)}

OneEntry(key, value) == PyDict(<<[k |-> key, v |-> value]>>)

DictKeys == {PyStr(k_x), PyStr(k_y), PyStr(k_if), PyStr(k_if_), PyInt(1)}

ListElements == {PyInt(1), PyStr(<<"s">>), OneEntry(PyStr(k_x), PyInt(1))}

DictValues ==
    {PyInt(1), PyList(<<PyStr(<<"s">>)>>),
     OneEntry(PyStr(k_x), PyInt(1)), OneEntry(PyInt(1), PyInt(1))}

RawLists == {PyList(elements) : elements \in SeqsUpTo(ListElements, MaxListLen)}

RawDicts ==
    {PyDict(entries) :
        entries \in {e \in SeqsUpTo([k : DictKeys, v : DictValues], MaxDictEntries) :
                        \A i, j \in 1..Len(e) : i # j => e[i].k # e[j].k}}

RawValues == Atoms \cup RawLists \cup RawDicts

\* the raw mappings of the instances a client assigns to: the assignment
\* reads nothing of the instance but its class
AssignedTo == {raw_dict \in RawDicts : Len(raw_dict.d) <= 1}

\* the values a client assigns through an accessor
AssignedValues == Atoms \cup {PyList(<<PyStr(<<"s">>)>>), OneEntry(PyStr(k_x), PyInt(1))}

(***************************************************************************)
(* What a client does with the built types, between calls of the builder.  *)
(***************************************************************************)
\* builder.get_type(name).constructor(raw_value); for an object schema this
\* is the class called with the raw mapping as keyword arguments.  The
\* operations are independent of each other: last holds one of them and
\* what follows on its result, until the next call of the builder
Construct(name, raw_value) ==
    /\ stack = <<>>
    /\ IsNone(last)
    /\ name \in DOMAIN schema_name_to_type_info
    /\ last' = [op |-> "construct", name |-> name, raw_value |-> raw_value,
                result |-> constructor(schema_name_to_type_info[name].constructor,
                                       raw_value)]
    /\ BuilderUnchanged
    /\ UNCHANGED <<stack, ret, outcome, calls>>

IsBuiltInstance == "op" \in DOMAIN last /\ last.op = "construct"
                       /\ last.result.ok /\ last.result.val.t = "instance"

\* instance.as_simple_dict() on the instance just constructed
as_simple_dict ==
    /\ stack = <<>>
    /\ IsBuiltInstance
    /\ last' = [op |-> "as_simple_dict", name |-> last.name,
                raw_value |-> last.raw_value, self |-> last.result.val,
                result |-> to_simple(last.result.val)]
    /\ BuilderUnchanged
    /\ UNCHANGED <<stack, ret, outcome, calls>>

\* instance.<legal_property_name> = value on the instance just constructed
SetProperty(legal_property_name, value) ==
    /\ stack = <<>>
    /\ IsBuiltInstance
    /\ last.raw_value \in AssignedTo
    /\ "accessors" \in DOMAIN classes[last.result.val.class]
    /\ legal_property_name \in Keys(classes[last.result.val.class].accessors)
    /\ LET self_ == last.result.val
           bound_property_name ==
               DictGet(classes[self_.class].accessors, legal_property_name)
       IN  last' = [op |-> "setattr", self |-> self_,
                    attribute |-> legal_property_name,
                    bound_property_name |-> bound_property_name,
                    value |-> value,
                    result |-> property_setter(self_, value, bound_property_name)]
    /\ BuilderUnchanged
    /\ UNCHANGED <<stack, ret, outcome, calls>>

\* the accessors an instance of some class can have
LegalNames == {make_legal(name) : name \in {k_x, k_y, k_if, k_if_}}

(***************************************************************************)
(* The builder as constructed: SchemaBasedTypeBuilder.__init__ on one of   *)
(* the documents.                                                          *)
(***************************************************************************)
Init ==
    /\ specification \in Documents
    /\ schema_name_to_type_info = <<>>
    /\ _schemas_that_are_being_parsed = {}
    /\ classes = <<>>
    /\ stack = <<>>
    /\ ret = None
    /\ outcome = "idle"
    /\ calls = 0
    /\ last = None

Next ==
    \/ \E schema_name \in ClientNames : ClientGetType(schema_name)
    \/ get_type
    \/ build_and_define_type_enter
    \/ build_and_define_type_consult
    \/ build_and_define_type_define
    \/ build_and_define_type_return
    \/ RefTypeInfoFactory_build_type
    \/ OneOfTypeInfoFactory_build_type
    \/ ArrayTypeInfoFactory_build_type
    \/ DictTypeInfoFactory_build_type
    \/ CustomTypeInfoFactory_on_type_defined
    \/ \E name \in ClientNames, raw_value \in RawValues : Construct(name, raw_value)
    \/ as_simple_dict
    \/ \E legal_property_name \in LegalNames, value \in AssignedValues :
           SetProperty(legal_property_name, value)

Spec == Init /\ [][Next]_vars

\* A call of the builder runs to its end: Python executes it synchronously,
\* and nothing but the call itself can stop it.
BuilderStep ==
    \/ get_type
    \/ build_and_define_type_enter
    \/ build_and_define_type_consult
    \/ build_and_define_type_define
    \/ build_and_define_type_return
    \/ RefTypeInfoFactory_build_type
    \/ OneOfTypeInfoFactory_build_type
    \/ ArrayTypeInfoFactory_build_type
    \/ DictTypeInfoFactory_build_type
    \/ CustomTypeInfoFactory_on_type_defined

FairSpec == Spec /\ WF_vars(BuilderStep)

(***************************************************************************)
(* gen_stub_text: the declarations of the classes of a document.  It opens *)
(* a builder of its own on the document, resolves every schema name in     *)
(* sorted order (get_all_types) and writes one declaration per name whose  *)
(* type is a class.  Schema names are identifiers: they become the names   *)
(* of the declared classes.                                                *)
(***************************************************************************)
\* ''.join(chars): a string of the model's characters as one string
RECURSIVE Text(_)
Text(chars) == IF chars = <<>> THEN "" ELSE chars[1] \o Text(Tail(chars))

\* sub in text
Contains(text, sub) ==
    \E i \in 1..(Len(text) - Len(sub) + 1) : SubSeq(text, i, i + Len(sub) - 1) = sub

\* list.index(item), counted from 1
Index(list, item) ==
    CHOOSE i \in 1..Len(list) : list[i] = item /\ \A j \in 1..(i - 1) : list[j] # item

\* the order of Python on tuples (bool, int)
KeyLess(a, b) == (~a[1] /\ b[1]) \/ (a[1] = b[1] /\ a[2] < b[2])

\* the key of a parameter in the sort of the parameters
parameter_key(constructor_parameters, param_str) ==
    <<Contains(param_str, "= None"), Index(constructor_parameters, param_str)>>

\* sorted(constructor_parameters, key = ...): a stable sort
sorted_parameters(constructor_parameters) ==
    LET key(i) == parameter_key(constructor_parameters, constructor_parameters[i])
        rank(i) ==
            Cardinality({j \in 1..Len(constructor_parameters) :
                            \/ KeyLess(key(j), key(i))
                            \/ key(j) = key(i) /\ j < i}) + 1
    IN  [r \in 1..Len(constructor_parameters) |->
            constructor_parameters[CHOOSE i \in 1..Len(constructor_parameters) :
                                       rank(i) = r]]

\* ''.join(lines)
RECURSIVE Concat(_)
Concat(lines) == IF lines = <<>> THEN "" ELSE lines[1] \o Concat(Tail(lines))

\* the schema names of the documents, in the order of sorted()
NameOrder == <<"A", "B", "C", "Item", "RootObject">>

\* sorted(self.specification_interface.get_schema_names())
sorted_schema_names(names) == SelectSeq(NameOrder, LAMBDA name : name \in names)

\* gen_stub_text: the declaration of type_name, whose type is the class
stub_class(type_name, class) ==
    LET cls == classes[class]
        types == cls._property_name_to_type
        property_name(i) == Text(make_legal(types[i].k))
        type_string(i) ==
            IF types[i].v.required THEN types[i].v.type_str
            ELSE "Optional[" \o types[i].v.type_str \o "]"
        parameter_string(i) ==
            property_name(i) \o ": " \o type_string(i)
                \o (IF types[i].v.required THEN "" ELSE " = None")
        properties == [i \in 1..Len(types) |->
                          "    " \o property_name(i) \o ": " \o type_string(i) \o " = ...\n"]
        appended == [i \in 1..Len(types) |-> parameter_string(i)]
        constructor_parameters == sorted_parameters(appended)
        kwargs_str == IF cls._additional_properties_allowed THEN ", **kwargs" ELSE ""
        additional_properties_type == cls._additional_properties_type
    IN  [type_name |-> type_name,
         class |-> class,
         constructor_parameters |-> constructor_parameters,
         text |->
             "class " \o type_name \o "(SchemaBasedObject):\n"
             \o Concat(properties)
             \o "\n"
             \o "    # noinspection PyMissingConstructor\n"
             \o "    def __init__(self, " \o Join(constructor_parameters)
             \o kwargs_str \o "): ...\n\n"
             \o (IF IsNone(additional_properties_type) THEN ""
                 ELSE "    def __getitem__(self, item) -> "
                      \o additional_properties_type.type_str \o ": ...\n\n")]

\* the documents gen_stub_text is called on
StubDocuments ==
    Documents \cup
    { \* required properties declared after optional ones; two properties
      \* with one legal name
      OpenAPI("A" :> Object(<<P(k_if, Simple("integer")), P(k_z, Simple("string")),
                              P(k_if_, Simple("integer"))>>, {})
           @@ "B" :> Additional(Object(<<P(k_x, Simple("integer")), P(k_y, Ref("A")),
                                         P(k_z, Simple("number"))>>, {k_y, k_z}),
                                Simple("string"))) }

StubInit ==
    /\ specification \in StubDocuments
    /\ schema_name_to_type_info = <<>>
    /\ _schemas_that_are_being_parsed = {}
    /\ classes = <<>>
    /\ stack = <<>>
    /\ ret = None
    /\ outcome = "idle"
    /\ calls = 0
    /\ last = None

\* gen_stub_text has returned or raised
Stubbed(result) == [op |-> "gen_stub_text", result |-> result]

\* get_all_types: the next get_type of its comprehension; get_schema_names
\* may raise before the first
gen_stub_text_get_all_types ==
    /\ stack = <<>>
    /\ IsNone(last)
    /\ outcome \in {"idle", "returned"}
    /\ LET names == get_schema_names(specification)
       IN  IF ~names.ok
           THEN /\ last' = Stubbed(names)
                /\ outcome' = names.err
                /\ UNCHANGED <<stack, calls, ret>>
           ELSE /\ calls < Len(sorted_schema_names(names.val))
                /\ stack' = <<GetTypeFrame(sorted_schema_names(names.val)[calls + 1])>>
                /\ calls' = calls + 1
                /\ outcome' = "running"
                /\ ret' = None
                /\ last' = last
    /\ BuilderUnchanged

\* a get_type of get_all_types has raised: so does gen_stub_text
gen_stub_text_raise ==
    /\ stack = <<>>
    /\ IsNone(last)
    /\ outcome \notin {"idle", "returned", "running"}
    /\ last' = Stubbed(Raise(outcome))
    /\ BuilderUnchanged
    /\ UNCHANGED <<stack, ret, outcome, calls>>

\* every name is resolved: the loop over the sorted items of get_all_types
gen_stub_text ==
    /\ stack = <<>>
    /\ IsNone(last)
    /\ outcome \in {"idle", "returned"}
    /\ get_schema_names(specification).ok
    /\ LET names == sorted_schema_names(get_schema_names(specification).val)
           declared == SelectSeq(names, LAMBDA type_name :
                           IsSchemaBasedObjectClass(
                               schema_name_to_type_info[type_name].type_obj))
       IN  /\ calls = Len(names)
           /\ last' = Stubbed(Ok([i \in 1..Len(declared) |->
                          stub_class(declared[i],
                                     schema_name_to_type_info[declared[i]].type_obj.n)]))
    /\ BuilderUnchanged
    /\ UNCHANGED <<stack, ret, outcome, calls>>

StubNext ==
    \/ gen_stub_text_get_all_types
    \/ gen_stub_text_raise
    \/ gen_stub_text
    \/ get_type
    \/ build_and_define_type_enter
    \/ build_and_define_type_consult
    \/ build_and_define_type_define
    \/ build_and_define_type_return
    \/ RefTypeInfoFactory_build_type
    \/ OneOfTypeInfoFactory_build_type
    \/ ArrayTypeInfoFactory_build_type
    \/ DictTypeInfoFactory_build_type
    \/ CustomTypeInfoFactory_on_type_defined

StubSpec == StubInit /\ [][StubNext]_vars

(***************************************************************************)
(* get_relative_path of the gen-stubs command.  An absolute path is the    *)
(* sequence of its segments after the root, as pathlib parses it: "."  and *)
(* empty segments are gone, ".." segments stay.  A relative path is the    *)
(* sequence of its segments.                                               *)
(***************************************************************************)
\* abs_destination.relative_to(abs_origin) returns: a comparison of segments
paths_are_relative(abs_origin, abs_destination) ==
    /\ Len(abs_origin) <= Len(abs_destination)
    /\ SubSeq(abs_destination, 1, Len(abs_origin)) = abs_origin

\* path.relative_to(other), for other a prefix of path
relative_to(path, other) == SubSeq(path, Len(other) + 1, Len(path))

\* path.parent; the root is its own parent
parent(path) == IF path = <<>> THEN <<>> ELSE SubSeq(path, 1, Len(path) - 1)

\* Path('../' * n)
DotDots(n) == [i \in 1..n |-> ".."]

\* the while loop of get_relative_path
RECURSIVE get_relative_path_loop(_, _, _)
get_relative_path_loop(num_dirs_above_origin, shared_origin, destination) ==
    IF paths_are_relative(shared_origin, destination)
    THEN Ok(DotDots(num_dirs_above_origin) \o relative_to(destination, shared_origin))
    ELSE IF num_dirs_above_origin + 1 > 20 THEN Raise("ClickException")
    ELSE get_relative_path_loop(num_dirs_above_origin + 1, parent(shared_origin),
                                destination)

\* get_relative_path(origin, destination), for absolute paths
relative_path(origin, destination) ==
    IF paths_are_relative(origin, destination)
    THEN Ok(relative_to(destination, origin))
    ELSE get_relative_path_loop(0, origin, destination)

\* the paths the command is given
ShortPaths == SeqsUpTo({"a", "b", ".."}, MaxPathLen)

DeepPaths == {[i \in 1..n |-> "a"] : n \in 20..MaxDepth}

\* the command before it has opened a builder
PathInit ==
    /\ specification = None
    /\ schema_name_to_type_info = <<>>
    /\ _schemas_that_are_being_parsed = {}
    /\ classes = <<>>
    /\ stack = <<>>
    /\ ret = None
    /\ outcome = "idle"
    /\ calls = 0
    /\ last = None

get_relative_path(origin, destination) ==
    /\ IsNone(last)
    /\ last' = [op |-> "get_relative_path", origin |-> origin,
                destination |-> destination,
                result |-> relative_path(origin, destination)]
    /\ BuilderUnchanged
    /\ UNCHANGED <<stack, ret, outcome, calls>>

PathNext ==
    \E origin \in ShortPaths \cup DeepPaths, destination \in ShortPaths :
        get_relative_path(origin, destination)

PathSpec == PathInit /\ [][PathNext]_vars

(***************************************************************************)
(* The properties of the specification, checked on the model.              *)
(***************************************************************************)
\* the last operation called the constructor registered under last.name
IsConstruct == "op" \in DOMAIN last /\ last.op = "construct"

\* ... and that constructor is a class's: the name stands for a Record Type
ConstructsRecord ==
    /\ IsConstruct
    /\ schema_name_to_type_info[last.name].constructor.c = "custom_class_constructor"

\* the schema a class was created from: a class is named after its schema
SchemaOfClass(class) == get_schema(specification, class).val

RequiredOf(schema) == IF "required" \in DOMAIN schema THEN schema.required ELSE {}

\* on_type_defined has run to its end on the class
IsDefined(class) ==
    /\ class \in DOMAIN classes
    /\ {"_legal_property_name_to_original", "_property_name_to_type",
        "_additional_properties_type"} \subseteq DOMAIN classes[class]
    /\ Keys(classes[class]._property_name_to_type)
           = Keys(SchemaOfClass(class).properties)

\* C1: for a Record Type whose schema requires a declared property P,
\* constructing from a raw mapping that has P under neither its name nor its
\* legal name fails: the result is an error, not an instance.
C1_RequiredPropertyIsEnforced ==
    ConstructsRecord /\ last.raw_value.t = "dict" =>
        LET class == schema_name_to_type_info[last.name].constructor.new_class
            schema == SchemaOfClass(class)
        IN  (/\ IsDefined(class)
             /\ \E property \in RequiredOf(schema) :
                   /\ property \in Keys(schema.properties)
                   /\ PyStr(property) \notin Keys(last.raw_value.d)
                   /\ PyStr(make_legal(property)) \notin Keys(last.raw_value.d))
            => ~last.result.ok

IsExport == "op" \in DOMAIN last /\ last.op = "as_simple_dict"

\* the constructor c, reading raw_value, renames no key: every key a class's
\* constructor reads is a string that the class's legal names map to itself
\* or not at all, and every key a map constructor reads is a string
RECURSIVE KeysAreKept(_, _)
KeysAreKept(c, raw_value) ==
    CASE c.c = "custom_class_constructor" ->
            (raw_value.t = "dict" /\ IsDefined(c.new_class)) =>
                LET cls == classes[c.new_class]
                    legal == cls._legal_property_name_to_original
                IN  \A i \in 1..Len(raw_value.d) :
                        LET key == raw_value.d[i].k
                            value == raw_value.d[i].v
                        IN  /\ key.t = "str"
                            /\ key.s \in Keys(legal) => DictGet(legal, key.s) = key.s
                            /\ IF key.s \in Keys(cls._property_name_to_type)
                               THEN KeysAreKept(
                                        DictGet(cls._property_name_to_type, key.s).constructor,
                                        value)
                               ELSE \/ IsNone(cls._additional_properties_type)
                                    \/ KeysAreKept(cls._additional_properties_type.constructor,
                                                   value)
      [] c.c = "oneOf_constructor" ->
            \A i \in 1..Len(c.type_options) :
                OptionIsTried(c.type_options[i], raw_value)
                    => KeysAreKept(c.type_options[i].constructor, raw_value)
      [] c.c = "array_constructor" ->
            raw_value.t = "list" =>
                \A i \in 1..Len(raw_value.l) :
                    KeysAreKept(c.sub_type.constructor, raw_value.l[i])
      [] c.c = "dict_constructor" ->
            raw_value.t = "dict" =>
                \A i \in 1..Len(raw_value.d) :
                    /\ raw_value.d[i].k.t = "str"
                    /\ KeysAreKept(c.sub_type.constructor, raw_value.d[i].v)
      [] OTHER -> TRUE

\* C2 as the specification states it: for every raw mapping D a Record
\* Type's constructor accepts, as_simple_dict() of the instance equals D.
C2_RoundTrip == IsExport => PyEq(last.result, last.raw_value)

\* C2, amended: for every raw mapping D a Record Type's constructor accepts
\* in which no key is renamed (no key that a class reads is the legal name
\* of a property with another name, and every key of a map is a string),
\* as_simple_dict() of the instance equals D.
C2_RoundTripOfKeptKeys ==
    (/\ IsExport
     /\ KeysAreKept(schema_name_to_type_info[last.name].constructor, last.raw_value))
    => PyEq(last.result, last.raw_value)

\* a round trip through a nested record: the instance holds an instance
C2_NestedRoundTrip ==
    /\ IsExport
    /\ KeysAreKept(schema_name_to_type_info[last.name].constructor, last.raw_value)
    /\ \E i \in 1..Len(last.self._properties) :
           last.self._properties[i].v.t = "instance"
    /\ PyEq(last.result, last.raw_value)

\* a candidate of a oneOf accepts a raw value: the value's representation is
\* one the candidate is tried on, and the candidate's constructor succeeds
OptionAccepts(option, raw_value) ==
    /\ OptionIsTried(option, raw_value)
    /\ constructor(option.constructor, raw_value).ok

\* C3: the constructor of a oneOf type returns the result of the first
\* candidate that accepts the raw value, candidates with a class for their
\* representation first and in the order declared within each group; it
\* fails with NoValidOneOfOptionException if and only if none accepts.
C3_FirstAcceptingCandidate ==
    (/\ IsConstruct
     /\ schema_name_to_type_info[last.name].constructor.c = "oneOf_constructor")
    => LET options == SortedOptions(schema_name_to_type_info[last.name]
                                        .constructor.type_options)
           accepting == {i \in 1..Len(options) :
                            OptionAccepts(options[i], last.raw_value)}
           first == CHOOSE i \in accepting : \A j \in accepting : i <= j
       IN  IF accepting = {}
           THEN last.result = Raise("NoValidOneOfOptionException")
           ELSE last.result = constructor(options[first].constructor, last.raw_value)


\* C4: for a Record Type (constructed from keyword arguments, so from a
\* mapping with string keys) and an input key that, after the renaming of
\* legal names, is no declared property: if the schema has
\* additionalProperties false and no patternProperties, construction fails,
\* with ValueError when the constructor gets as far as this key; if the
\* additional properties are typed (patternProperties, or additionalProperties
\* an object), the bag holds under the key what the constructor of the
\* additional type makes of the raw value; otherwise it holds the raw value.
C4_AdditionalProperties ==
    (/\ ConstructsRecord
     /\ last.raw_value.t = "dict"
     /\ \A key \in Keys(last.raw_value.d) : key.t = "str")
    => LET class == schema_name_to_type_info[last.name].constructor.new_class
           schema == SchemaOfClass(class)
           cls == classes[class]
           properties == last.raw_value.d
           forbidden ==
               /\ "additionalProperties" \in DOMAIN schema
               /\ schema.additionalProperties = [bool |-> FALSE]
               /\ "patternProperties" \notin DOMAIN schema
           typed ==
               \/ "patternProperties" \in DOMAIN schema
               \/ /\ "additionalProperties" \in DOMAIN schema
                  /\ "bool" \notin DOMAIN schema.additionalProperties
                  /\ IsDict(schema.additionalProperties)
       IN  IsDefined(class) =>
           \A i \in 1..Len(properties) :
               LET given == properties[i].k.s
                   legal == cls._legal_property_name_to_original
                   key == IF given \in Keys(legal) THEN DictGet(legal, given) ELSE given
                   raw == properties[i].v
                   reached == SchemaBasedObject_init_loop(
                                  class, SubSeq(properties, 1, i - 1), 1, EmptyDict).ok
               IN  key \notin Keys(schema.properties) =>
                       IF forbidden
                       THEN /\ ~last.result.ok
                            /\ reached => last.result = Raise("ValueError")
                       ELSE last.result.ok =>
                                DictGet(last.result.val._properties, PyStr(key))
                                    = IF typed
                                      THEN constructor(
                                               cls._additional_properties_type.constructor,
                                               raw).val
                                      ELSE raw

\* an undeclared key of a class with pattern properties holds an instance of
\* the class one of the patterns refers to
C4_TypedAdditionalIsConstructed ==
    /\ ConstructsRecord
    /\ last.result.ok
    /\ LET class == schema_name_to_type_info[last.name].constructor.new_class
           schema == SchemaOfClass(class)
       IN  /\ "patternProperties" \in DOMAIN schema
           /\ \E i \in 1..Len(last.raw_value.d) :
                  /\ last.raw_value.d[i].k.s \notin Keys(schema.properties)
                  /\ last.raw_value.d[i].v.t = "dict"
                  /\ DictGet(last.result.val._properties, last.raw_value.d[i].k).t
                         = "instance"

\* C5: for every Record Type and every property name declared in its schema,
\* the type's mapping of legal names to original names has make_legal(name)
\* and maps it to name.
C5_LegalNameIsLeftInverse ==
    \A class \in DOMAIN classes :
        IsDefined(class) =>
            \A name \in Keys(SchemaOfClass(class).properties) :
                LET legal == classes[class]._legal_property_name_to_original
                IN  /\ make_legal(name) \in Keys(legal)
                    /\ DictGet(legal, make_legal(name)) = name


\* the named schemas that become classes
IsObjectSchema(name) ==
    /\ get_schema(specification, name).ok
    /\ CustomTypeInfoFactory_accepts(get_schema(specification, name).val, <<name>>)

\* the node is a reference to the named schema
RefersTo(schema, name) ==
    Has(schema, "ref") /\ parse_schema_name(specification, schema.ref) = Ok(name)

\* the object schemas that the properties of an object schema refer to
Referenced(name) ==
    LET properties == get_schema(specification, name).val.properties
    IN  {other \in ClientNames :
            /\ IsObjectSchema(other)
            /\ \E i \in 1..Len(properties) : RefersTo(properties[i].v, other)}

RECURSIVE ReferencedThrough(_)
ReferencedThrough(names) ==
    LET further == names \cup UNION {Referenced(name) : name \in names}
    IN  IF further = names THEN names ELSE ReferencedThrough(further)

\* an object schema with a property that refers to its own containing type,
\* directly or through a chain of named object schemas
IsSelfReferential(name) ==
    /\ name \in ClientNames
    /\ IsObjectSchema(name)
    /\ name \in ReferencedThrough(Referenced(name))

\* a client's resolve of a self-referential object schema is running
C6_Resolving == stack # <<>> /\ IsSelfReferential(stack[1].schema_name)

\* the termination that C6 states, by itself: under FairSpec every resolve
\* of a self-referential object schema comes to its end
C6_ResolveTerminates == C6_Resolving ~> (stack = <<>>)

\* C6: resolving a named object schema with a property that refers to its
\* own containing type, directly or through a chain of named object schemas:
\* the shell class is registered while its properties are resolved; the
\* schema is never built inside its own build (the nested resolve of the name
\* returns the registry entry); and the type of a property that refers to a
\* type of the chain is that type's class.
C6_SelfReferenceResolves ==
    /\ \A i \in 1..Len(stack) :
           stack[i].f = "on_type_defined" =>
               /\ stack[i].class \in DOMAIN schema_name_to_type_info
               /\ schema_name_to_type_info[stack[i].class].type_obj = Class(stack[i].class)
    /\ \A i, j \in 1..Len(stack) :
           (/\ stack[i].f = "build_and_define_type"
            /\ stack[j].f = "build_and_define_type"
            /\ stack[i].name # <<>>
            /\ stack[i].name = stack[j].name
            /\ IsSelfReferential(stack[i].name[1]))
           => i = j
    /\ \A class \in DOMAIN classes :
           (IsSelfReferential(class) /\ "_property_name_to_type" \in DOMAIN classes[class]) =>
               LET properties == SchemaOfClass(class).properties
               IN  \A i \in 1..Len(properties), other \in ReferencedThrough({class}) :
                       (/\ RefersTo(properties[i].v, other)
                        /\ properties[i].k \in Keys(classes[class]._property_name_to_type))
                       => LET type == DictGet(classes[class]._property_name_to_type,
                                              properties[i].k)
                          IN  /\ type.type_str = other
                              /\ type.type_obj = Class(other)
                              /\ type.constructor.c = "custom_class_constructor"
                              /\ type.constructor.new_class = other

\* C7: the registry is write-once per name: no step of a build session
\* removes an entry of schema_name_to_type_info or replaces it by a
\* different type info.
C7_RegistryIsWriteOnce ==
    [][\A name \in DOMAIN schema_name_to_type_info :
           /\ name \in DOMAIN schema_name_to_type_info'
           /\ schema_name_to_type_info'[name] = schema_name_to_type_info[name]]_vars

\* the last operation called the constructor of an array type
ConstructsArray ==
    /\ IsConstruct
    /\ schema_name_to_type_info[last.name].constructor.c = "array_constructor"

\* C8: the array constructor fails with ValueError on a raw value that is
\* not a list; on a list of length n whose elements the item constructor
\* accepts it returns a list of length n whose i-th element is the item
\* constructor's result on the i-th raw element; it fails if the item
\* constructor fails on an element.
C8_ArrayConstructor ==
    ConstructsArray =>
        LET sub_type == schema_name_to_type_info[last.name].constructor.sub_type
            raw_list == last.raw_value
        IN  IF raw_list.t # "list" THEN last.result = Raise("ValueError")
            ELSE LET items == [i \in 1..Len(raw_list.l) |->
                                  constructor(sub_type.constructor, raw_list.l[i])]
                 IN  IF \A i \in 1..Len(items) : items[i].ok
                     THEN /\ last.result.ok
                          /\ last.result.val.t = "list"
                          /\ Len(last.result.val.l) = Len(raw_list.l)
                          /\ \A i \in 1..Len(items) : last.result.val.l[i] = items[i].val
                     ELSE ~last.result.ok

\* a list of two raw mappings has become a list of two instances
C8_ListOfInstances ==
    /\ ConstructsArray
    /\ last.raw_value.t = "list"
    /\ Len(last.raw_value.l) = 2
    /\ last.result.ok
    /\ \A i \in 1..2 : last.raw_value.l[i].t = "dict" /\ last.result.val.l[i].t = "instance"

IsAssignment == "op" \in DOMAIN last /\ last.op = "setattr"

\* C9: an assignment through the accessor of a declared property stores the
\* value under the property's name, and changes nothing else, if the value
\* is an instance of the property's type or is None and the schema does not
\* require the property; every other assignment fails with ValueError.
C9_AccessorChecksType ==
    IsAssignment =>
        LET class == last.self.class
            schema == SchemaOfClass(class)
            property_name == last.bound_property_name
            declared == DictGet(classes[class]._property_name_to_type, property_name)
            stored == DictSet(last.self._properties, PyStr(property_name), last.value)
        IN  /\ property_name \in Keys(schema.properties)
            /\ make_legal(property_name) = last.attribute
            /\ IF \/ isinstance(last.value, declared.type_obj)
                  \/ last.value = PyNone /\ property_name \notin RequiredOf(schema)
               THEN last.result = Ok(Instance(class, stored))
               ELSE last.result = Raise("ValueError")

\* None has been assigned to a property that is not required and whose type
\* is not None's
C9_NoneIsStored ==
    /\ IsAssignment
    /\ last.value = PyNone
    /\ last.result.ok
    /\ DictGet(last.result.val._properties, PyStr(last.bound_property_name)) = PyNone
    /\ ~isinstance(PyNone,
                   DictGet(classes[last.self.class]._property_name_to_type,
                           last.bound_property_name).type_obj)

\* C10: RefTypeInfoFactory.build_type, on a node with a reference string,
\* raises DocumentError if the string does not match the dialect's pattern or
\* names no schema of the document; otherwise it resolves the name, and what
\* it returns has the type_str, type_obj and constructor of the name's entry
\* in the registry and the required flag it was called with.
C10_ReferenceStrategy ==
    [][(stack # <<>> /\ Top.f = "RefTypeInfoFactory") =>
          LET schema_name == parse_schema_name(specification, Top.schema.ref)
          IN  IF ~schema_name.ok \/ schema_name.val \notin ClientNames
              THEN stack' = <<>> /\ outcome' = "DocumentError"
              ELSE IF Top.pc = "entry"
              THEN stack' = Continue([Top EXCEPT !.pc = "referenced"],
                                     <<GetTypeFrame(schema_name.val)>>)
              ELSE LET entry == schema_name_to_type_info[schema_name.val]
                   IN  /\ Len(stack') = Len(stack) - 1
                       /\ ret'.type_str = entry.type_str
                       /\ ret'.type_obj = entry.type_obj
                       /\ ret'.constructor = entry.constructor
                       /\ ret'.required = Top.required]_vars

\* the last operation called the constructor of a oneOf type
ConstructsOneOf ==
    /\ IsConstruct
    /\ schema_name_to_type_info[last.name].constructor.c = "oneOf_constructor"

\* the candidates whose constructor that call invoked
CandidatesInvoked ==
    oneOf_constructor_calls(
        SortedOptions(schema_name_to_type_info[last.name].constructor.type_options),
        1, last.raw_value)

\* C11 as the specification states it: the oneOf constructor passes a raw
\* dict to candidates whose representation is a class (a Record Type) only,
\* and a raw value that is no dict to candidates whose representation is no
\* class only.
C11_DictToRecordsOnly ==
    ConstructsOneOf =>
        \A i \in 1..Len(CandidatesInvoked) :
            IsSchemaBasedObjectClass(CandidatesInvoked[i].type_obj)
                <=> last.raw_value.t = "dict"

\* C11, amended: the oneOf constructor invokes a candidate's constructor
\* only if the candidate's representation is a class and the raw value is a
\* dict, or the raw value is an instance of the candidate's representation
\* (so a raw dict also goes to a candidate whose representation is dict or
\* object: a map, an untyped value, a nested oneOf).
C11_CandidatesInvoked ==
    ConstructsOneOf =>
        \A i \in 1..Len(CandidatesInvoked) :
            LET type_obj == CandidatesInvoked[i].type_obj
            IN  \/ type_obj.k = "class" /\ last.raw_value.t = "dict"
                \/ type_obj.k = "builtin" /\ type_obj.n = "object"
                \/ type_obj.k = "builtin" /\ type_obj.n = "int"
                       /\ last.raw_value.t \in {"int", "bool"}
                \/ type_obj.k = "builtin" /\ type_obj.n = last.raw_value.t

\* a raw dict went to a class and to no other candidate, although the oneOf
\* has a candidate that is no class; and that candidate is reached by a
\* string
C11_DictSkipsPrimitive ==
    /\ ConstructsOneOf
    /\ last.raw_value.t = "dict"
    /\ CandidatesInvoked # <<>>
    /\ \A i \in 1..Len(CandidatesInvoked) :
           IsSchemaBasedObjectClass(CandidatesInvoked[i].type_obj)
    /\ LET type_options == schema_name_to_type_info[last.name].constructor.type_options
       IN  \E i \in 1..Len(type_options) : type_options[i].type_obj = Builtin("str")

\* gen_stub_text has returned the declarations
IsStub == "op" \in DOMAIN last /\ last.op = "gen_stub_text" /\ last.result.ok

\* C12: in the declaration of every object type, the constructor's
\* parameters are those of the schema's required properties, in the order of
\* the schema's properties, followed by those of its other properties, in
\* that order too.
C12_RequiredFirstInDeclaredOrder ==
    IsStub =>
        \A n \in 1..Len(last.result.val) :
            LET declaration == last.result.val[n]
                schema == SchemaOfClass(declaration.class)
                properties == schema.properties
                types == classes[declaration.class]._property_name_to_type
                parameter(i) ==
                    LET type_str == DictGet(types, properties[i].k).type_str
                    IN  Text(make_legal(properties[i].k)) \o ": "
                        \o (IF properties[i].k \in RequiredOf(schema) THEN type_str
                            ELSE "Optional[" \o type_str \o "] = None")
                indices == [i \in 1..Len(properties) |-> i]
                required == SelectSeq(indices,
                                LAMBDA i : properties[i].k \in RequiredOf(schema))
                optional == SelectSeq(indices,
                                LAMBDA i : properties[i].k \notin RequiredOf(schema))
            IN  declaration.constructor_parameters
                    = [j \in 1..Len(required) |-> parameter(required[j])]
                      \o [j \in 1..Len(optional) |-> parameter(optional[j])]

\* the last operation called the constructor of a map type
ConstructsMap ==
    /\ IsConstruct
    /\ schema_name_to_type_info[last.name].constructor.c = "dict_constructor"

\* C13: the map constructor fails with ValueError on a raw value that is no
\* mapping; on a raw mapping whose values the element constructor accepts it
\* returns a mapping with one entry per raw entry, under the string form of
\* the raw key, holding the element constructor's result on the raw value.
C13_MapConstructor ==
    ConstructsMap =>
        LET sub_type == schema_name_to_type_info[last.name].constructor.sub_type
            raw_dict == last.raw_value
        IN  IF raw_dict.t # "dict" THEN last.result = Raise("ValueError")
            ELSE LET values == [i \in 1..Len(raw_dict.d) |->
                                   constructor(sub_type.constructor, raw_dict.d[i].v)]
                 IN  (\A i \in 1..Len(values) : values[i].ok) =>
                         /\ last.result.ok
                         /\ last.result.val.t = "dict"
                         /\ Len(last.result.val.d) = Len(raw_dict.d)
                         /\ \A i \in 1..Len(values) :
                                /\ str(raw_dict.d[i].k) \in Keys(last.result.val.d)
                                /\ DictGet(last.result.val.d, str(raw_dict.d[i].k))
                                       = values[i].val

IsRelativePath == "op" \in DOMAIN last /\ last.op = "get_relative_path"

\* the absolute path that a sequence of segments after the root denotes:
\* ".." leaves a directory for the one above it, the root for itself
RECURSIVE Denotes(_, _)
Denotes(segments, at) ==
    IF segments = <<>> THEN at
    ELSE Denotes(Tail(segments),
                 IF Head(segments) = ".." THEN parent(at) ELSE Append(at, Head(segments)))

\* the ancestor of path that is k levels above it
RECURSIVE Ancestor(_, _)
Ancestor(path, k) == IF k = 0 THEN path ELSE Ancestor(parent(path), k - 1)

\* C14: get_relative_path(origin, destination) on absolute paths returns a
\* relative path R such that origin joined with R denotes what destination
\* denotes; R is destination relative to origin, without "..", if
\* destination lies under origin, and otherwise k times ".." followed by
\* destination relative to the k-th ancestor of origin, for the least k whose
\* ancestor is a prefix of destination.
C14_RelativePath ==
    IsRelativePath =>
        LET origin == last.origin
            destination == last.destination
            k == CHOOSE k \in 0..Len(origin) :
                     /\ paths_are_relative(Ancestor(origin, k), destination)
                     /\ \A j \in 0..(k - 1) :
                            ~paths_are_relative(Ancestor(origin, j), destination)
        IN  /\ last.result.ok
            /\ Denotes(origin \o last.result.val, <<>>) = Denotes(destination, <<>>)
            /\ IF k = 0
               THEN /\ last.result.val = relative_to(destination, origin)
                    /\ \A i \in 1..Len(last.result.val) : last.result.val[i] # ".."
               ELSE last.result.val
                        = DotDots(k) \o relative_to(destination, Ancestor(origin, k))

\* the strategies in the order the specification gives them
StrategyOrder ==
    << "RefTypeInfoFactory", "CustomTypeInfoFactory", "OneOfTypeInfoFactory",
       "ArrayTypeInfoFactory", "DictTypeInfoFactory", "SimpleTypeInfoFactory" >>

\* what each strategy accepts; the last one takes every node
Accepts(strategy, schema, name) ==
    CASE strategy = "RefTypeInfoFactory" -> RefTypeInfoFactory_accepts(schema)
      [] strategy = "CustomTypeInfoFactory" -> CustomTypeInfoFactory_accepts(schema, name)
      [] strategy = "OneOfTypeInfoFactory" -> OneOfTypeInfoFactory_accepts(schema)
      [] strategy = "ArrayTypeInfoFactory" -> ArrayTypeInfoFactory_accepts(schema)
      [] strategy = "DictTypeInfoFactory" -> DictTypeInfoFactory_accepts(schema)
      [] OTHER -> TRUE

\* the first strategy of the order that accepts the node
FirstAccepting(schema, name) ==
    CHOOSE n \in 1..Len(StrategyOrder) :
        /\ Accepts(StrategyOrder[n], schema, name)
        /\ \A m \in 1..(n - 1) : ~Accepts(StrategyOrder[m], schema, name)

\* a call of build_and_define_type that found its node's identity absent
\* from the resolving set, and has chosen its factories
RunsFullChain(frame) ==
    /\ frame.f = "build_and_define_type"
    /\ frame.pc # "entry"
    /\ ~(frame.factories = <<"SimpleTypeInfoFactory">> /\ Len(frame.consulted) <= 1)

\* the type info is one that the strategy builds
BuiltBy(strategy, type_info, frame) ==
    /\ type_info.required = (IF strategy = "CustomTypeInfoFactory" THEN TRUE
                             ELSE frame.required)
    /\ CASE strategy = "RefTypeInfoFactory" ->
              LET entry == schema_name_to_type_info[
                               parse_schema_name(specification, frame.schema.ref).val]
              IN  /\ type_info.type_str = entry.type_str
                  /\ type_info.type_obj = entry.type_obj
                  /\ type_info.constructor = entry.constructor
         [] strategy = "CustomTypeInfoFactory" ->
              /\ type_info.type_obj = Class(frame.name[1])
              /\ type_info.constructor.c = "custom_class_constructor"
         [] strategy = "OneOfTypeInfoFactory" ->
              /\ type_info.type_obj = Builtin("object")
              /\ type_info.constructor.c = "oneOf_constructor"
         [] strategy = "ArrayTypeInfoFactory" ->
              /\ type_info.type_obj = Builtin("list")
              /\ type_info.constructor.c = "array_constructor"
         [] strategy = "DictTypeInfoFactory" ->
              /\ type_info.type_obj = Builtin("dict")
              /\ type_info.constructor.c = "dict_constructor"
         [] OTHER -> type_info.constructor = Identity

\* C15: a call of build_and_define_type for a node whose identity is not in
\* the resolving set consults the strategies in the order Reference, Custom
\* Object, OneOf, Array, Map, Simple, up to the first that accepts the node
\* and no further; the type info it goes on with is the one that strategy
\* built; and no call ends with the assertion that no factory accepted.
C15_FirstStrategyWins ==
    /\ outcome # "AssertionError"
    /\ \A i \in 1..Len(stack) :
           RunsFullChain(stack[i]) =>
               LET frame == stack[i]
                   first == FirstAccepting(frame.schema, frame.name)
               IN  /\ frame.consulted = SubSeq(StrategyOrder, 1, Len(frame.consulted))
                   /\ Len(frame.consulted) <= first
                   /\ frame.pc \in {"build_type", "defined"}
                          => Len(frame.consulted) = first
                   /\ frame.pc = "defined"
                          => /\ ~IsNone(frame.type_info)
                             /\ BuiltBy(StrategyOrder[first], frame.type_info, frame)

\* a class has been built for a named object schema that the map strategy
\* accepts as well
C15_ClassBeforeMap ==
    \E i \in 1..Len(stack) :
        /\ RunsFullChain(stack[i])
        /\ stack[i].pc = "defined"
        /\ stack[i].consulted = <<"RefTypeInfoFactory", "CustomTypeInfoFactory">>
        /\ DictTypeInfoFactory_accepts(stack[i].schema)
        /\ stack[i].type_info.type_obj = Class(stack[i].name[1])

\* a call of build_and_define_type that found its node's identity in the
\* resolving set, and has chosen its factories
BreaksCycle(frame) ==
    /\ frame.f = "build_and_define_type"
    /\ frame.pc # "entry"
    /\ frame.factories = <<"SimpleTypeInfoFactory">>
    /\ Len(frame.consulted) <= 1

\* C16: a call of build_and_define_type for a node whose identity is in the
\* resolving set runs the Simple strategy alone and resolves no sub-schema
\* (no call is made from it); it does not raise; and it returns a type info
\* whose constructor is the identity.
C16_CycleBreaking ==
    [][\A i \in 1..Len(stack) :
           BreaksCycle(stack[i]) =>
               /\ i = Len(stack)
               /\ IF stack[i].pc = "factories"
                  THEN /\ Len(stack') = Len(stack)
                       /\ stack'[i].pc = "defined"
                       /\ stack'[i].consulted = <<"SimpleTypeInfoFactory">>
                       /\ stack'[i].type_info.constructor = Identity
                  ELSE /\ Len(stack') = Len(stack) - 1
                       /\ outcome' # "AssertionError"
                       /\ ret' = stack[i].type_info
                       /\ ret'.constructor = Identity]_vars


(***************************************************************************)
(* The resolving set between and during the calls                          *)
(***************************************************************************)
\* the call of build_and_define_type that a client's get_type made: the
\* outermost one, once it is past its test of the resolving set
OutermostInProgress ==
    /\ Len(stack) >= 2
    /\ stack[2].f = "build_and_define_type"
    /\ stack[2].pc # "entry"

\* C17: while no call of the builder is in progress (before the first call
\* and after every outermost call, whether it returned or raised) the
\* resolving set is empty; and while the outermost call for a node is in
\* progress, the identity of that node is in the resolving set.
C17_ResolvingSetIsTransient ==
    /\ stack = <<>> => _schemas_that_are_being_parsed = {}
    /\ OutermostInProgress =>
           SchemaIdentifier(stack[2].name, stack[2].schema)
               \in _schemas_that_are_being_parsed


(***************************************************************************)
(* The registry after a call that raised                                   *)
(***************************************************************************)
\* the class of a name has a type for every property of the name's schema
IsPopulated(schema_name) ==
    LET schema == get_schema(specification, schema_name).val
        cls == classes[schema_name]
    IN  /\ "_property_name_to_type" \in DOMAIN cls
        /\ \A i \in 1..Len(schema.properties) :
               schema.properties[i].k \in Keys(cls._property_name_to_type)

\* the client's call has returned a class that lacks the type of a property
ReturnsPartialClass ==
    /\ stack = <<>>
    /\ outcome = "returned"
    /\ IsSchemaBasedObjectClass(ret.type_obj)
    /\ ~IsPopulated(ret.type_obj.n)

\* C18: when a client's get_type(name) raises, the registry has no entry
\* for name afterwards; and no call of get_type returns a class whose
\* property map lacks a property of the schema.
C18_NoPartialResult ==
    [][(stack # <<>> /\ stack' = <<>>) =>
           /\ outcome' # "returned" =>
                  stack[1].schema_name \notin DOMAIN schema_name_to_type_info'
           /\ ~ReturnsPartialClass']_vars


=============================================================================
